---------------------------- MODULE Spec2Model ----------------------------
(***************************************************************************)
(* Game-session state machine of the Telegram chess bot (src/index.js) and *)
(* its SQLite persistence (database.js).                                   *)
(*                                                                         *)
(* JavaScript values that are used as Map keys are modelled with their     *)
(* type: a Map looks a key up by SameValueZero, so the number 7 and the    *)
(* string "7" are different keys.  JSNum(c) is the number c, JSStr(s) the  *)
(* string s.  A private chat's id is the positive number of its user, a    *)
(* channel's id is a negative number; a user's username is identified with *)
(* the user's number.                                                      *)
(*                                                                         *)
(* A handler runs without interruption up to its first await that is       *)
(* followed by a change of state; what follows that await is a record in   *)
(* `pending`, run later by its own action, in any order with the other     *)
(* handlers.  A statement issued to the database is executed when it is    *)
(* issued (sqlite3 queues the statements of one connection in call order). *)
(***************************************************************************)
EXTENDS Integers, Sequences, FiniteSets, TLC

\* ------------------------------------------------------------------ bounds

\* plies after which no further move is submitted
MaxPly == 4
\* advances of the wall clock
MaxTicks == 2
\* handler continuations in flight at once
MaxPending == 1

\* actors: user u has username u and private chat id u
Users == {1, 2, 3}
\* the public channel's chat id
Channel == 0 - 1

\* ------------------------------------------------------------- JS values

JSNum(c) == <<"number", ToString(c)>>
JSStr(s) == <<"string", s>>

\* String(chatId)
Str(c) == ToString(c)

\* null / undefined in a numeric field
Absent == 0 - 1
\* null in gameState.channelId
NoChannel == ""

\* !x for a numeric field
Falsy(x) == x = Absent \/ x = 0
\* x || 0
OrZero(x) == IF Falsy(x) THEN 0 ELSE x

\* array.includes(x)
Includes(arr, x) == \E i \in 1..Len(arr) : arr[i] = x
\* array.filter(p => p !== x)
Without(arr, x) == SelectSeq(arr, LAMBDA p : p # x)
\* if (!array.includes(x)) array.push(x)
PushNew(arr, x) == IF Includes(arr, x) THEN arr ELSE Append(arr, x)
Elems(arr) == {arr[i] : i \in 1..Len(arr)}

\* Math.ceil(n / 2) for a non-negative integer n
CeilHalf(n) == (n + 1) \div 2

\* ------------------------------------------------------------ rules oracle
\* chess.js, seen through the calls the handlers make.  A position is the
\* number of plies played from the initial position, how the game is over
\* ("" while it is not, "mate", or "draw" for a position drawn by the material
\* left, in which moves are still legal), and the length of history() (plies
\* played on this Chess object).

NewChess == [ply |-> 0, hist |-> 0, over |-> ""]
Turn(game) == IF game.ply % 2 = 0 THEN "w" ELSE "b"
IsGameOver(game) == game.over # ""

Notations == {"quiet", "capture", "mate", "draw", "bad"}
\* game.moves(): no capture before ply 3, no mate and no draw before ply 4
LegalMoves(game) ==
    IF game.over = "mate" THEN {}
    ELSE {"quiet"} \cup (IF game.ply >= 2 THEN {"capture"} ELSE {})
                   \cup (IF game.ply >= 3 THEN {"mate", "draw"} ELSE {})
\* game.move(notation), for a legal notation: the new position
MoveGame(game, n) ==
    [ply |-> game.ply + 1, hist |-> game.hist + 1,
     over |-> IF n = "mate" THEN "mate"
              ELSE IF n = "draw" \/ game.over = "draw" THEN "draw" ELSE ""]
\* move.captured of the move object
Captured(n) == IF n = "capture" THEN "p" ELSE ""
\* game.fen() and game.load(fen): the FEN keeps side to move and move
\* number, not the history
Fen(game) == [ply |-> game.ply, over |-> game.over]
LoadFen(fen) == [ply |-> fen.ply, hist |-> 0, over |-> fen.over]

\* ------------------------------------------------------------------ pacing

BaseDelay == 900
Increment == 900

\* what one advance of the clock adds, in milliseconds: half of the first
\* round's delay
TickStep == (1000 * BaseDelay) \div 2
\* the clock when the process is first started, in milliseconds
StartClock == TickStep

NoMoveDelay == [defined |-> FALSE, enabled |-> FALSE, baseDelay |-> 0, increment |-> 0]
DefaultMoveDelay ==
    [defined |-> TRUE, enabled |-> TRUE, baseDelay |-> BaseDelay, increment |-> Increment]

\* a slip: the increment counted for the round just completed as well
RequiredDelayEveryRound(gameState) ==
    gameState.moveDelay.baseDelay
        + gameState.moveDelay.increment * (OrZero(gameState.moveNumber) \div 2)

\* baseDelay + increment * (roundNumber - 1), in seconds
RequiredDelay(gameState) ==
    gameState.moveDelay.baseDelay
        + gameState.moveDelay.increment * ((OrZero(gameState.moveNumber) \div 2) - 1)

\* a slip: the test of a round in progress left out
canMakeMoveNoParity(gameState, now) ==
    IF ~gameState.moveDelay.defined \/ ~gameState.moveDelay.enabled THEN TRUE
    ELSE IF Falsy(gameState.roundEndTime) THEN TRUE
    ELSE (now - gameState.roundEndTime) >= 1000 * RequiredDelay(gameState)

\* canMakeMove(gameState) when Date.now() = now (milliseconds)
canMakeMove(gameState, now) ==
    IF ~gameState.moveDelay.defined \/ ~gameState.moveDelay.enabled THEN TRUE
    ELSE IF OrZero(gameState.moveNumber) % 2 = 1 THEN TRUE
    ELSE IF Falsy(gameState.roundEndTime) THEN TRUE
    ELSE (now - gameState.roundEndTime) >= 1000 * RequiredDelay(gameState)

\* a slip: the remaining seconds rounded down
getRemainingDelayFloor(gameState, now) ==
    IF ~gameState.moveDelay.defined \/ ~gameState.moveDelay.enabled THEN 0
    ELSE IF OrZero(gameState.moveNumber) % 2 = 1 THEN 0
    ELSE IF Falsy(gameState.roundEndTime) THEN 0
    ELSE LET leftMs == 1000 * RequiredDelay(gameState) - (now - gameState.roundEndTime)
         IN  IF leftMs <= 0 THEN 0 ELSE leftMs \div 1000

\* getRemainingDelay(gameState) when Date.now() = now: Math.ceil(Math.max(0,
\* requiredDelay - (now - roundEndTime) / 1000))
getRemainingDelay(gameState, now) ==
    IF ~gameState.moveDelay.defined \/ ~gameState.moveDelay.enabled THEN 0
    ELSE IF OrZero(gameState.moveNumber) % 2 = 1 THEN 0
    ELSE IF Falsy(gameState.roundEndTime) THEN 0
    ELSE LET leftMs == 1000 * RequiredDelay(gameState) - (now - gameState.roundEndTime)
         IN  IF leftMs <= 0 THEN 0 ELSE (leftMs + 999) \div 1000


\* ------------------------------------------------------------------- state

VARIABLES
    activeGames,    \* Map: game key (a JS value) -> gameState
    userToChannel,  \* Map: String(chatId) -> channelId (a string)
    db,             \* table games: channelId -> row
    clock,          \* Date.now(), milliseconds
    pending,        \* continuations of handlers suspended at an await
    lastResult      \* what the last handler answered

vars == <<activeGames, userToChannel, db, clock, pending, lastResult>>

\* a chat: its id and its type; a private chat has the id of its user
PrivateChat(u) == [id |-> u, type |-> "private"]
ChannelChat == [id |-> Channel, type |-> "channel"]
Chats == {PrivateChat(u) : u \in Users} \cup {ChannelChat}
\* msg.chat.type === 'channel' || msg.chat.type === 'supergroup'
IsChannel(chat) == chat.type = "channel" \/ chat.type = "supergroup"
\* who can act in a chat
Senders(chat) == IF chat.type = "private" THEN {chat.id} ELSE Users

\* Map.has / Map.get / Map.set / Map.delete
MapHas(m, k) == k \in DOMAIN m
MapSet(m, k, v) == [x \in DOMAIN m \cup {k} |-> IF x = k THEN v ELSE m[x]]
MapDelete(m, k) == [x \in DOMAIN m \ {k} |-> m[x]]
EmptyMap == [x \in {} |-> 0]

\* a slip: the chat id turned into a string before the lookup
ChatKeyAsString(chatId) == JSStr(Str(chatId))

\* the raw chat id used as a key: activeGames.has(chatId)
ChatKey(chatId) == JSNum(chatId)

\* lastResult observes the handlers and is read by none of them.  It holds
\* the answer of the last handler whose name is in lastResult.on; any other
\* handler leaves "other".  A specification's Init fixes lastResult.on:
\* nothing, the move and resign handlers, or these with the joins and links
Recorded == {"move_", "/move", "resign", "/resign"}
RecordedRouting == Recorded \cup {"refresh", "show_history"}
RecordedJoins == Recorded \cup {"/start", "join_channel_white", "join_channel_black",
                                "join_white", "join_black",
                                "handleGameJoin", "refresh", "show_history"}
NoAnswer(on) == [on |-> on, op |-> "other", outcome |-> "none", remaining |-> 0]
Answer(op, outcome, remaining) ==
    IF op \in lastResult.on
    THEN [on |-> lastResult.on, op |-> op, outcome |-> outcome, remaining |-> remaining]
    ELSE NoAnswer(lastResult.on)

\* ----------------------------------------------------------- new sessions

\* the object literal of start_newgame
ButtonSession(chat) ==
    [game |-> NewChess, whiteTeam |-> <<>>, blackTeam |-> <<>>, joinedUsers |-> <<>>,
     capturedPieces |-> [white |-> <<>>, black |-> <<>>],
     resignVotes |-> [white |-> <<>>, black |-> <<>>],
     moveHistory |-> <<>>,
     channelId |-> IF IsChannel(chat) THEN Str(chat.id) ELSE NoChannel,
     moveDelay |-> DefaultMoveDelay, moveNumber |-> 0, roundEndTime |-> Absent]

\* the object literal of /newgame: no moveDelay, moveNumber, roundEndTime
CommandSession(chat) ==
    [game |-> NewChess, whiteTeam |-> <<>>, blackTeam |-> <<>>, joinedUsers |-> <<>>,
     capturedPieces |-> [white |-> <<>>, black |-> <<>>],
     resignVotes |-> [white |-> <<>>, black |-> <<>>],
     moveHistory |-> <<>>,
     channelId |-> IF IsChannel(chat) THEN Str(chat.id) ELSE NoChannel,
     moveDelay |-> NoMoveDelay, moveNumber |-> Absent, roundEndTime |-> Absent]

\* the object literal of startGameInChannel
ChannelSession(channelId) ==
    [game |-> NewChess, whiteTeam |-> <<>>, blackTeam |-> <<>>, joinedUsers |-> <<>>,
     capturedPieces |-> [white |-> <<>>, black |-> <<>>],
     resignVotes |-> [white |-> <<>>, black |-> <<>>],
     moveHistory |-> <<>>,
     channelId |-> Str(channelId),
     moveDelay |-> DefaultMoveDelay, moveNumber |-> 0, roundEndTime |-> Absent]

\* a slip: both teams read from the same column of the row
RestoredSessionOneColumn(channelId, row) ==
    [game |-> LoadFen(row.fen), whiteTeam |-> row.whiteTeam, blackTeam |-> row.whiteTeam,
     joinedUsers |-> <<>>,
     capturedPieces |-> [white |-> <<>>, black |-> <<>>],
     resignVotes |-> [white |-> <<>>, black |-> <<>>],
     moveHistory |-> <<>>,
     channelId |-> channelId,
     moveDelay |-> DefaultMoveDelay, moveNumber |-> 0, roundEndTime |-> Absent]

\* the object rebuilt from a row of table games by join_game_<channelId>
RestoredSession(channelId, row) ==
    [game |-> LoadFen(row.fen), whiteTeam |-> row.whiteTeam, blackTeam |-> row.blackTeam,
     joinedUsers |-> <<>>,
     capturedPieces |-> [white |-> <<>>, black |-> <<>>],
     resignVotes |-> [white |-> <<>>, black |-> <<>>],
     moveHistory |-> <<>>,
     channelId |-> channelId,
     moveDelay |-> DefaultMoveDelay, moveNumber |-> 0, roundEndTime |-> Absent]

\* ------------------------------------------------------------- persistence

\* the row saveGame writes for a session (INSERT OR REPLACE by channelId)
RowOf(gameState) ==
    [fen |-> Fen(gameState.game), whiteTeam |-> gameState.whiteTeam,
     blackTeam |-> gameState.blackTeam, moveCount |-> gameState.game.hist]
\* saveGame(db, {...}); a row whose channelId is NULL is found by no lookup
\* and is left out
SaveGame(table, channelId, row) ==
    IF channelId = NoChannel THEN table ELSE MapSet(table, channelId, row)
\* deleteGame(db, channelId)
DeleteGame(table, channelId) == MapDelete(table, channelId)

\* a row of table games, and "no row"
NoRow == [fen |-> Fen(NewChess), whiteTeam |-> <<>>, blackTeam |-> <<>>, moveCount |-> 0]
\* a suspended handler: what it does when it resumes, and the values it holds
Cont(kind, key, channelId, row, found) ==
    [kind |-> kind, key |-> key, channelId |-> channelId, row |-> row, found |-> found]

\* the process after start-up, with a new games.db
Started(observed) ==
    /\ activeGames = EmptyMap
    /\ userToChannel = EmptyMap
    /\ db = EmptyMap
    /\ clock = StartClock
    /\ pending = {}
    /\ lastResult = NoAnswer(observed)

Init == Started({})

\* ---------------------------------------------------------------- creation

\* callback_query start_newgame
StartNewGameButton(chat) ==
    /\ IF MapHas(activeGames, ChatKey(chat.id))
       THEN /\ lastResult' = Answer("start_newgame", "AlreadyExists", 0)
            /\ UNCHANGED activeGames
       ELSE LET gameKey == IF IsChannel(chat) THEN Str(chat.id) ELSE "default"
            IN  /\ activeGames' = MapSet(activeGames, JSStr(gameKey), ButtonSession(chat))
                /\ lastResult' = Answer("start_newgame", "Created", 0)
    /\ UNCHANGED <<userToChannel, db, clock, pending>>

\* startGameInChannel(channelId, username) up to its first await; the rest
\* (saveGame of an empty row) is the continuation "channelSave"
StartGameInChannel(channelId, op) ==
    LET gameKey == Str(channelId) IN
    IF MapHas(activeGames, JSStr(gameKey))
    THEN /\ lastResult' = Answer(op, "AlreadyExists", 0)
         /\ UNCHANGED <<activeGames, pending>>
    ELSE /\ activeGames' = MapSet(activeGames, JSStr(gameKey), ChannelSession(channelId))
         /\ pending' = pending \cup {Cont("channelSave", gameKey, Str(channelId),
                                           RowOf(ChannelSession(channelId)), TRUE)}
         /\ lastResult' = Answer(op, "Created", 0)

\* onText /newgame
NewGameCommand(chat) ==
    LET gameKey == Str(chat.id) IN
    /\ IF MapHas(activeGames, JSStr(gameKey))
       THEN /\ lastResult' = Answer("/newgame", "AlreadyExists", 0)
            /\ UNCHANGED <<activeGames, pending>>
       ELSE IF IsChannel(chat)
            THEN \* set, delete, then the helper
                 /\ Cardinality(pending) < MaxPending
                 /\ StartGameInChannel(chat.id, "/newgame")
            ELSE /\ activeGames' = MapSet(activeGames, JSStr(gameKey), CommandSession(chat))
                 /\ lastResult' = Answer("/newgame", "Created", 0)
                 /\ UNCHANGED pending
    /\ UNCHANGED <<userToChannel, db, clock>>

\* the continuation of startGameInChannel: saveGame(db, {channelId, fen of
\* the new game, whiteTeam: [], blackTeam: [], moveCount: 0})
ChannelSave(p) ==
    /\ p.kind = "channelSave"
    /\ db' = SaveGame(db, p.channelId, p.row)
    /\ pending' = pending \ {p}
    /\ UNCHANGED <<activeGames, userToChannel, clock, lastResult>>


\* -------------------------------------------------------------------- joins

\* onText /start channel_<targetChannelId>: the deep link
StartDeepLink(chat, targetChannelId) ==
    /\ IF MapHas(activeGames, JSStr(targetChannelId))
       THEN /\ userToChannel' = MapSet(userToChannel, Str(chat.id), targetChannelId)
            /\ lastResult' = Answer("/start", "Linked", 0)
       ELSE /\ lastResult' = Answer("/start", "NotFound", 0)
            /\ UNCHANGED userToChannel
    /\ UNCHANGED <<activeGames, db, clock, pending>>

\* the team change of a join: leave the other team, enter `team` once
AddToTeam(gameState, username, team) ==
    IF team = "white"
    THEN [gameState EXCEPT !.blackTeam = Without(@, username),
                           !.whiteTeam = PushNew(@, username)]
    ELSE [gameState EXCEPT !.whiteTeam = Without(@, username),
                           !.blackTeam = PushNew(@, username)]

\* a slip: only the white team looked at
OnWhiteTeam(gameState, username) == Includes(gameState.whiteTeam, username)

\* isInWhiteTeam || isInBlackTeam
OnAnyTeam(gameState, username) ==
    Includes(gameState.whiteTeam, username) \/ Includes(gameState.blackTeam, username)

\* handleGameJoin(channelId, chatId, username, team)
HandleGameJoin(channelId, chat, username, team) ==
    IF ~MapHas(activeGames, JSStr(channelId))
    THEN /\ lastResult' = Answer("handleGameJoin", "NoGame", 0)
         /\ UNCHANGED <<activeGames, userToChannel, db>>
    ELSE LET gameState == activeGames[JSStr(channelId)] IN
         IF OnAnyTeam(gameState, username)
         THEN /\ lastResult' = Answer("handleGameJoin", "AlreadyJoined", 0)
              /\ UNCHANGED <<activeGames, userToChannel, db>>
         ELSE LET joined == [AddToTeam(gameState, username, team)
                               EXCEPT !.joinedUsers = PushNew(@, chat.id)]
              IN  /\ activeGames' = MapSet(activeGames, JSStr(channelId), joined)
                  /\ userToChannel' = MapSet(userToChannel, Str(chat.id), channelId)
                  /\ db' = SaveGame(db, joined.channelId, RowOf(joined))
                  /\ lastResult' = Answer("handleGameJoin", "Joined", 0)

\* callback_query join_channel_white_<channelId> / join_channel_black_<channelId>
JoinChannelTeam(chat, username, channelId, team) ==
    /\ IF ~MapHas(activeGames, JSStr(channelId))
       THEN /\ lastResult' = Answer("join_channel_" \o team, "NoGame", 0)
            /\ UNCHANGED <<activeGames, userToChannel, db>>
       ELSE LET gameState == activeGames[JSStr(channelId)] IN
            IF OnAnyTeam(gameState, username)
            THEN /\ userToChannel' =
                      IF MapHas(userToChannel, Str(chat.id)) THEN userToChannel
                      ELSE MapSet(userToChannel, Str(chat.id), channelId)
                 /\ activeGames' = MapSet(activeGames, JSStr(channelId),
                                      [gameState EXCEPT !.joinedUsers = PushNew(@, chat.id)])
                 /\ lastResult' = Answer("join_channel_" \o team, "AlreadyJoined", 0)
                 /\ UNCHANGED db
            ELSE LET joined == [AddToTeam(gameState, username, team)
                                  EXCEPT !.joinedUsers = PushNew(@, chat.id)]
                 IN  /\ activeGames' = MapSet(activeGames, JSStr(channelId), joined)
                     /\ userToChannel' = MapSet(userToChannel, Str(chat.id), channelId)
                     /\ db' = SaveGame(db, joined.channelId, RowOf(joined))
                     /\ lastResult' = Answer("join_channel_" \o team, "Joined", 0)
    /\ UNCHANGED <<clock, pending>>

\* callback_query join_white / join_black: the game is looked up by the raw
\* chat id; join_black pushes without the includes test
JoinTeamButton(chat, username, team) ==
    /\ IF ~MapHas(activeGames, ChatKey(chat.id))
       THEN /\ lastResult' = Answer("join_" \o team, "NoGame", 0)
            /\ UNCHANGED activeGames
       ELSE LET gameState == activeGames[ChatKey(chat.id)]
                joined == IF team = "white"
                          THEN [gameState EXCEPT !.blackTeam = Without(@, username),
                                                 !.whiteTeam = PushNew(@, username)]
                          ELSE [gameState EXCEPT !.whiteTeam = Without(@, username),
                                                 !.blackTeam = Append(@, username)]
            IN  /\ activeGames' = MapSet(activeGames, ChatKey(chat.id), joined)
                /\ lastResult' = Answer("join_" \o team, "Joined", 0)
    /\ UNCHANGED <<userToChannel, db, clock, pending>>

\* callback data is a string; the handlers test it with startsWith in the
\* order of the source, so it is modelled as the sequence of its pieces
StartsWith(data, prefix) ==
    Len(data) >= Len(prefix) /\ SubSeq(data, 1, Len(prefix)) = prefix
\* data.replace(prefix, ''), for data that starts with prefix: the rest, joined
RECURSIVE Joined(_)
Joined(pieces) == IF pieces = <<>> THEN "" ELSE Head(pieces) \o Joined(Tail(pieces))
StripPrefix(data, prefix) == Joined(SubSeq(data, Len(prefix) + 1, Len(data)))

\* getGameByChannelId(db, channelId): the row, or none
GetGameByChannelId(table, channelId) ==
    IF MapHas(table, channelId) THEN [found |-> TRUE, row |-> table[channelId]]
    ELSE [found |-> FALSE, row |-> NoRow]

\* callback_query join_game_<channelId>: the game list's button.  A game not
\* in memory is read from the database; the rest runs when the read resolves
JoinGameList(chat, channelId) ==
    IF MapHas(activeGames, JSStr(channelId))
    THEN /\ lastResult' = Answer("join_game", "ChooseSide", 0)
         /\ UNCHANGED <<activeGames, userToChannel, db, pending>>
    ELSE LET got == GetGameByChannelId(db, channelId) IN
         /\ Cardinality(pending) < MaxPending
         /\ pending' = pending \cup {Cont("restore", channelId, channelId, got.row, got.found)}
         /\ lastResult' = Answer("join_game", "Loading", 0)
         /\ UNCHANGED <<activeGames, userToChannel, db>>

\* the .then of getGameByChannelId in join_game_<channelId>
Restore(p) ==
    /\ p.kind = "restore"
    /\ pending' = pending \ {p}
    /\ IF ~p.found
       THEN /\ lastResult' = Answer("join_game", "NotFound", 0)
            /\ UNCHANGED activeGames
       ELSE /\ activeGames' = MapSet(activeGames, JSStr(p.key), RestoredSession(p.channelId, p.row))
            /\ lastResult' = Answer("join_game", "Restored", 0)
    /\ UNCHANGED <<userToChannel, db, clock>>

\* callback_query with data join_game_..., join_game_white_..., join_game_black_...:
\* the first test that matches takes the query
JoinGameButton(chat, username, data) ==
    /\ IF StartsWith(data, <<"join_game_">>)
       THEN JoinGameList(chat, StripPrefix(data, <<"join_game_">>))
       ELSE /\ IF StartsWith(data, <<"join_game_", "white_">>)
               THEN HandleGameJoin(StripPrefix(data, <<"join_game_", "white_">>), chat, username, "white")
               ELSE HandleGameJoin(StripPrefix(data, <<"join_game_", "black_">>), chat, username, "black")
            /\ UNCHANGED pending
    /\ UNCHANGED <<clock>>


\* -------------------------------------------------------- session lookup

\* const hasGame = activeGames.has(chatId) || userToChannel.has(String(chatId))
HasGame(chat) ==
    MapHas(activeGames, ChatKey(chat.id)) \/ MapHas(userToChannel, Str(chat.id))

\* the lookup of refresh, show_history, resign and move_: the key string of
\* the session found, or "" when none is found
NoKey == ""
ResolveKey(chat) ==
    IF MapHas(userToChannel, Str(chat.id))
    THEN LET channelId == userToChannel[Str(chat.id)]
         IN  IF MapHas(activeGames, JSStr(channelId)) THEN channelId ELSE NoKey
    ELSE IF MapHas(activeGames, JSStr(Str(chat.id))) THEN Str(chat.id)
    ELSE NoKey

\* showGameStatus(chatId, gameState, username, withButtons): the controls of
\* the message sent. The keyboard has one move_ button for every legal move
\* of the side to move, and the resign button; the recipient is not looked
\* at. Without buttons a channel game's post carries the join link only.
ShowGameStatus(chatId, gameState, withButtons) ==
    [to |-> chatId,
     moves |-> IF withButtons THEN LegalMoves(gameState.game) ELSE {},
     resign |-> withButtons,
     joinLink |-> ~withButtons /\ gameState.channelId # NoChannel]

\* callback_query refresh: the board of the session found is sent again
RefreshButton(chat) ==
    /\ lastResult' = Answer("refresh",
                            IF ~HasGame(chat) \/ ResolveKey(chat) = NoKey
                            THEN "NoGame" ELSE "Shown", 0)
    /\ UNCHANGED <<activeGames, userToChannel, db, clock, pending>>

\* callback_query show_history: without hasGame the query is dropped; else
\* the ledger of the session found is sent
ShowHistoryButton(chat) ==
    /\ lastResult' = Answer("show_history",
                            IF ~HasGame(chat) THEN "Ignored"
                            ELSE IF ResolveKey(chat) = NoKey THEN "NoGame"
                            ELSE IF activeGames[JSStr(ResolveKey(chat))].moveHistory = <<>>
                                 THEN "NoMoves" ELSE "Shown", 0)
    /\ UNCHANGED <<activeGames, userToChannel, db, clock, pending>>

\* --------------------------------------------------------------------- moves

TeamOf(gameState, side) ==
    IF side = "w" THEN gameState.whiteTeam ELSE gameState.blackTeam

\* the ledger entry of an applied move
HistoryEntry(gameState, username, notation) ==
    [number |-> Len(gameState.moveHistory) + 1, player |-> username,
     side |-> Turn(gameState.game), captured |-> Captured(notation)]

\* capturedPieces[capturedSide].push(move.captured)
TrackCapture(gameState, notation) ==
    IF Captured(notation) = "" THEN gameState.capturedPieces
    ELSE IF Turn(gameState.game) = "w"
         THEN [gameState.capturedPieces EXCEPT !.black = Append(@, Captured(notation))]
         ELSE [gameState.capturedPieces EXCEPT !.white = Append(@, Captured(notation))]

\* moveNumber = (moveNumber || 0) + 1
NextMoveNumber(gameState) == OrZero(gameState.moveNumber) + 1

\* a slip: the timer started by every ply
NextRoundEndTimeEveryPly(gameState, now) == now

\* if (moveNumber % 2 === 0) roundEndTime = Date.now()
NextRoundEndTime(gameState, now) ==
    IF NextMoveNumber(gameState) % 2 = 0 THEN now ELSE gameState.roundEndTime

\* a slip: a submission applied to a position read before another move: the
\* ledger and the counters advance, the position does not
ApplyButtonMoveStale(gameState, username, notation, now) ==
    [gameState EXCEPT
        !.moveNumber = NextMoveNumber(gameState),
        !.roundEndTime = NextRoundEndTime(gameState, now),
        !.moveHistory = Append(@, HistoryEntry(gameState, username, notation))]

\* the mutations of the move_ handler after game.move succeeded
ApplyButtonMove(gameState, username, notation, now) ==
    [gameState EXCEPT
        !.game = MoveGame(@, notation),
        !.moveNumber = NextMoveNumber(gameState),
        !.roundEndTime = NextRoundEndTime(gameState, now),
        !.capturedPieces = TrackCapture(gameState, notation),
        !.moveHistory = Append(@, HistoryEntry(gameState, username, notation))]

\* the mutations of the /move handler after game.move succeeded
ApplyCommandMove(gameState, username, notation) ==
    [gameState EXCEPT
        !.game = MoveGame(@, notation),
        !.capturedPieces = TrackCapture(gameState, notation),
        !.moveHistory = Append(@, HistoryEntry(gameState, username, notation))]

\* a slip: the test of turn ownership left out
MoveButtonOutcomeNoTurn(chat, username, notation) ==
    IF ~HasGame(chat) THEN "Ignored"
    ELSE IF chat.type # "private" THEN "NotPrivate"
    ELSE IF ResolveKey(chat) = NoKey THEN "NoGame"
    ELSE LET gameState == activeGames[JSStr(ResolveKey(chat))] IN
         IF IsGameOver(gameState.game) THEN "GameOver"
         ELSE IF ~OnAnyTeam(gameState, username) THEN "NotOnAnyTeam"
         ELSE IF ~canMakeMove(gameState, clock) THEN "PacingBlocked"
         ELSE IF notation \notin LegalMoves(gameState.game) THEN "IllegalMove"
         ELSE "Applied"

\* a slip: turn ownership tested before the cooldown
MoveButtonOutcomeTurnFirst(chat, username, notation) ==
    IF ~HasGame(chat) THEN "Ignored"
    ELSE IF chat.type # "private" THEN "NotPrivate"
    ELSE IF ResolveKey(chat) = NoKey THEN "NoGame"
    ELSE LET gameState == activeGames[JSStr(ResolveKey(chat))] IN
         IF IsGameOver(gameState.game) THEN "GameOver"
         ELSE IF ~OnAnyTeam(gameState, username) THEN "NotOnAnyTeam"
         ELSE IF ~Includes(TeamOf(gameState, Turn(gameState.game)), username) THEN "WrongTeam"
         ELSE IF ~canMakeMove(gameState, clock) THEN "PacingBlocked"
         ELSE IF notation \notin LegalMoves(gameState.game) THEN "IllegalMove"
         ELSE "Applied"

\* a slip: the cooldown tested before the team membership
MoveButtonOutcomePacingFirst(chat, username, notation) ==
    IF ~HasGame(chat) THEN "Ignored"
    ELSE IF chat.type # "private" THEN "NotPrivate"
    ELSE IF ResolveKey(chat) = NoKey THEN "NoGame"
    ELSE LET gameState == activeGames[JSStr(ResolveKey(chat))] IN
         IF IsGameOver(gameState.game) THEN "GameOver"
         ELSE IF ~canMakeMove(gameState, clock) THEN "PacingBlocked"
         ELSE IF ~OnAnyTeam(gameState, username) THEN "NotOnAnyTeam"
         ELSE IF ~Includes(TeamOf(gameState, Turn(gameState.game)), username) THEN "WrongTeam"
         ELSE IF notation \notin LegalMoves(gameState.game) THEN "IllegalMove"
         ELSE "Applied"

\* a slip: the test of the chat type left out
MoveButtonOutcomeAnyChat(chat, username, notation) ==
    IF ~HasGame(chat) THEN "Ignored"
    ELSE IF ResolveKey(chat) = NoKey THEN "NoGame"
    ELSE LET gameState == activeGames[JSStr(ResolveKey(chat))] IN
         IF IsGameOver(gameState.game) THEN "GameOver"
         ELSE IF ~OnAnyTeam(gameState, username) THEN "NotOnAnyTeam"
         ELSE IF ~canMakeMove(gameState, clock) THEN "PacingBlocked"
         ELSE IF ~Includes(TeamOf(gameState, Turn(gameState.game)), username) THEN "WrongTeam"
         ELSE IF notation \notin LegalMoves(gameState.game) THEN "IllegalMove"
         ELSE "Applied"

\* the checks of the move_ handler, in the order of the source
MoveButtonOutcome(chat, username, notation) ==
    IF ~HasGame(chat) THEN "Ignored"
    ELSE IF chat.type # "private" THEN "NotPrivate"
    ELSE IF ResolveKey(chat) = NoKey THEN "NoGame"
    ELSE LET gameState == activeGames[JSStr(ResolveKey(chat))] IN
         IF IsGameOver(gameState.game) THEN "GameOver"
         ELSE IF ~OnAnyTeam(gameState, username) THEN "NotOnAnyTeam"
         ELSE IF ~canMakeMove(gameState, clock) THEN "PacingBlocked"
         ELSE IF ~Includes(TeamOf(gameState, Turn(gameState.game)), username) THEN "WrongTeam"
         ELSE IF notation \notin LegalMoves(gameState.game) THEN "IllegalMove"
         ELSE "Applied"

\* a slip: the ply counted before the rules oracle has accepted the notation
RejectMoveCounted(chat, outcome) ==
    /\ lastResult' = Answer("move_", outcome, 0)
    /\ IF outcome = "IllegalMove"
       THEN LET k == JSStr(ResolveKey(chat))
            IN  activeGames' = MapSet(activeGames, k,
                    [activeGames[k] EXCEPT !.moveNumber = NextMoveNumber(activeGames[k])])
       ELSE UNCHANGED activeGames
    /\ UNCHANGED <<db, pending>>

\* an early return of the move_ handler: a message, and for the cooldown the
\* time left
RejectMove(chat, outcome) ==
    /\ lastResult' =
           Answer("move_", outcome,
                  IF outcome = "PacingBlocked"
                  THEN getRemainingDelay(activeGames[JSStr(ResolveKey(chat))], clock)
                  ELSE 0)
    /\ UNCHANGED <<activeGames, db, pending>>

\* callback_query move_<notation>
MoveButton(chat, username, notation) ==
    LET outcome == MoveButtonOutcome(chat, username, notation) IN
    /\ IF outcome = "Applied"
       THEN LET key == ResolveKey(chat)
                moved == ApplyButtonMove(activeGames[JSStr(key)], username, notation, clock)
                ends == moved.channelId # NoChannel /\ IsGameOver(moved.game)
            IN  /\ moved.game.ply <= MaxPly
                /\ ends => Cardinality(pending) < MaxPending
                /\ activeGames' = MapSet(activeGames, JSStr(key), moved)
                /\ db' = SaveGame(db, moved.channelId, RowOf(moved))
                /\ pending' = IF ends
                              THEN pending \cup {Cont("moveTail", key, moved.channelId, NoRow, TRUE)}
                              ELSE pending
                /\ lastResult' = Answer("move_", "Applied", 0)
       ELSE RejectMove(chat, outcome)
    /\ UNCHANGED <<userToChannel, clock>>

\* a slip: the catch of the handler undoing the move it reports
MoveButtonSaveRolledBack(chat, username, notation) ==
    /\ MoveButtonOutcome(chat, username, notation) = "Applied"
    /\ activeGames[JSStr(ResolveKey(chat))].channelId # NoChannel
    /\ lastResult' = Answer("move_", "SaveFailed", 0)
    /\ UNCHANGED <<activeGames, userToChannel, db, clock, pending>>

\* callback_query move_<notation> when saveGame rejects: the move has been
\* applied; the await throws into the catch of the handler, which reports the
\* error and sends the board to the mover.  No row is written, deleteGame
\* and the notifications are skipped
MoveButtonSaveRejected(chat, username, notation) ==
    /\ MoveButtonOutcome(chat, username, notation) = "Applied"
    /\ activeGames[JSStr(ResolveKey(chat))].channelId # NoChannel
    /\ LET key == ResolveKey(chat)
           moved == ApplyButtonMove(activeGames[JSStr(key)], username, notation, clock)
       IN  /\ moved.game.ply <= MaxPly
           /\ activeGames' = MapSet(activeGames, JSStr(key), moved)
    /\ lastResult' = Answer("move_", "SaveFailed", 0)
    /\ UNCHANGED <<userToChannel, db, clock, pending>>

\* joinedUsers in the order of the loop, the mover's chat left out, up to
\* and without the first one whose delivery throws
RECURSIVE UntilFailure(_, _, _)
UntilFailure(joinedUsers, chatId, failing) ==
    IF joinedUsers = <<>> THEN <<>>
    ELSE IF Head(joinedUsers) = chatId THEN UntilFailure(Tail(joinedUsers), chatId, failing)
    ELSE IF JSNum(Head(joinedUsers)) \in failing THEN <<>>
    ELSE <<JSNum(Head(joinedUsers))>> \o UntilFailure(Tail(joinedUsers), chatId, failing)

\* a slip: the loop over joinedUsers without a try of its own
MoveDeliveriesNoTry(chatId, gameState, failing) ==
    IF JSNum(chatId) \in failing THEN <<>>
    ELSE IF gameState.channelId # NoChannel /\ JSStr(gameState.channelId) \in failing
    THEN <<JSNum(chatId), JSNum(chatId)>>
    ELSE <<JSNum(chatId)>>
         \o (IF gameState.channelId # NoChannel THEN <<JSStr(gameState.channelId)>> ELSE <<>>)
         \o UntilFailure(gameState.joinedUsers, chatId, failing)

\* joinedUsers in the order of the loop, the mover's chat left out and the
\* ones whose delivery throws caught and skipped
RECURSIVE EachTried(_, _, _)
EachTried(joinedUsers, chatId, failing) ==
    IF joinedUsers = <<>> THEN <<>>
    ELSE IF Head(joinedUsers) = chatId \/ JSNum(Head(joinedUsers)) \in failing
    THEN EachTried(Tail(joinedUsers), chatId, failing)
    ELSE <<JSNum(Head(joinedUsers))>> \o EachTried(Tail(joinedUsers), chatId, failing)

\* the boards showGameStatus delivers after an applied move, in order, when
\* the deliveries to the chats in `failing` throw: to the mover; to the
\* channel; to each joined user but the mover, each in a try of its own.  A
\* throw outside the loop ends in the catch of the handler, which sends the
\* board to the mover once more
MoveDeliveries(chatId, gameState, failing) ==
    IF JSNum(chatId) \in failing THEN <<>>
    ELSE IF gameState.channelId # NoChannel /\ JSStr(gameState.channelId) \in failing
    THEN <<JSNum(chatId), JSNum(chatId)>>
    ELSE <<JSNum(chatId)>>
         \o (IF gameState.channelId # NoChannel THEN <<JSStr(gameState.channelId)>> ELSE <<>>)
         \o EachTried(gameState.joinedUsers, chatId, failing)

\* a slip: the row left in the table when the game has ended
MoveTailKeepsRow(p) ==
    /\ p.kind = "moveTail"
    /\ pending' = (pending \ {p}) \cup {Cont("fanOut", p.key, p.channelId, NoRow, TRUE)}
    /\ UNCHANGED <<activeGames, userToChannel, db, clock, lastResult>>

\* the rest of the move_ handler after await saveGame, for a move that ended
\* the game of a channel: deleteGame(db, channelId), awaited; what follows
\* the await is the continuation "fanOut"
MoveTail(p) ==
    /\ p.kind = "moveTail"
    /\ db' = DeleteGame(db, p.channelId)
    /\ pending' = (pending \ {p}) \cup {Cont("fanOut", p.key, p.channelId, NoRow, TRUE)}
    /\ UNCHANGED <<activeGames, userToChannel, clock, lastResult>>

\* the end of the move_ handler for a move that ended the game of a channel:
\* the analytics, the move notification, the board sent to the mover, to the
\* channel and to every joined user.  The messages change no Map and no row;
\* the handler returns without touching activeGames
FanOut(p) ==
    /\ p.kind = "fanOut"
    /\ pending' = pending \ {p}
    /\ UNCHANGED <<activeGames, userToChannel, db, clock, lastResult>>

\* the checks of the /move handler, in the order of the source
MoveCommandOutcome(chat, username, notation) ==
    IF chat.type # "private" THEN "NotPrivate"
    ELSE IF ~MapHas(activeGames, ChatKey(chat.id)) THEN "NoGame"
    ELSE LET gameState == activeGames[ChatKey(chat.id)] IN
         IF IsGameOver(gameState.game) THEN "GameOver"
         ELSE IF ~OnAnyTeam(gameState, username) THEN "NotOnAnyTeam"
         ELSE IF ~Includes(TeamOf(gameState, Turn(gameState.game)), username) THEN "WrongTeam"
         ELSE IF notation \notin LegalMoves(gameState.game) THEN "IllegalMove"
         ELSE "Applied"

\* onText /move <notation>
MoveCommand(chat, username, notation) ==
    LET outcome == MoveCommandOutcome(chat, username, notation) IN
    /\ IF outcome = "Applied"
       THEN LET moved == ApplyCommandMove(activeGames[ChatKey(chat.id)], username, notation)
            IN  /\ moved.game.ply <= MaxPly
                /\ activeGames' = MapSet(activeGames, ChatKey(chat.id), moved)
       ELSE UNCHANGED activeGames
    /\ lastResult' = Answer("/move", outcome, 0)
    /\ UNCHANGED <<userToChannel, db, clock, pending>>

\* ------------------------------------------------------------------- resign

\* a slip: one vote more than half the team asked for
MajorityNeededStrict(teamPlayers) == (teamPlayers \div 2) + 1

\* const majorityNeeded = Math.ceil(teamPlayers / 2)
MajorityNeeded(teamPlayers) == CeilHalf(teamPlayers)

\* a slip: the vote pushed and counted without the test for an earlier vote
ResignButtonCountsAgain(chat, username) ==
    /\ IF ~HasGame(chat) \/ ResolveKey(chat) = NoKey
       THEN /\ lastResult' = Answer("resign", "NoGame", 0)
            /\ UNCHANGED <<activeGames, pending>>
       ELSE LET gameKey == ResolveKey(chat)
                gameState == activeGames[JSStr(gameKey)]
                teamName == IF Includes(gameState.whiteTeam, username) THEN "White"
                            ELSE IF Includes(gameState.blackTeam, username) THEN "Black"
                            ELSE "None"
                userTeam == IF teamName = "White" THEN gameState.resignVotes.white
                            ELSE gameState.resignVotes.black
            IN  IF teamName = "None"
                THEN /\ lastResult' = Answer("resign", "NotOnAnyTeam", 0)
                     /\ UNCHANGED <<activeGames, pending>>
                ELSE LET voted == IF teamName = "White"
                                  THEN [gameState EXCEPT !.resignVotes.white = Append(@, username)]
                                  ELSE [gameState EXCEPT !.resignVotes.black = Append(@, username)]
                         teamPlayers == IF teamName = "White" THEN Len(gameState.whiteTeam)
                                        ELSE Len(gameState.blackTeam)
                         voteCount == Len(userTeam) + 1
                     IN  /\ activeGames' = MapSet(activeGames, JSStr(gameKey), voted)
                         /\ IF voteCount >= MajorityNeeded(teamPlayers)
                            THEN /\ Cardinality(pending) < MaxPending
                                 /\ pending' = pending \cup
                                        {Cont("resignFinish", gameKey, gameState.channelId, NoRow, TRUE)}
                                 /\ lastResult' = Answer("resign", "Resigned", voteCount)
                            ELSE /\ lastResult' = Answer("resign", "Voted", voteCount)
                                 /\ UNCHANGED pending
    /\ UNCHANGED <<userToChannel, db, clock>>

\* callback_query resign, up to await displayGameAnalytics
ResignButton(chat, username) ==
    /\ IF ~HasGame(chat) \/ ResolveKey(chat) = NoKey
       THEN /\ lastResult' = Answer("resign", "NoGame", 0)
            /\ UNCHANGED <<activeGames, pending>>
       ELSE LET gameKey == ResolveKey(chat)
                gameState == activeGames[JSStr(gameKey)]
                teamName == IF Includes(gameState.whiteTeam, username) THEN "White"
                            ELSE IF Includes(gameState.blackTeam, username) THEN "Black"
                            ELSE "None"
                userTeam == IF teamName = "White" THEN gameState.resignVotes.white
                            ELSE gameState.resignVotes.black
            IN  IF teamName = "None"
                THEN /\ lastResult' = Answer("resign", "NotOnAnyTeam", 0)
                     /\ UNCHANGED <<activeGames, pending>>
                ELSE IF Includes(userTeam, username)
                THEN /\ lastResult' = Answer("resign", "AlreadyVoted", 0)
                     /\ UNCHANGED <<activeGames, pending>>
                ELSE LET voted == IF teamName = "White"
                                  THEN [gameState EXCEPT !.resignVotes.white = Append(@, username)]
                                  ELSE [gameState EXCEPT !.resignVotes.black = Append(@, username)]
                         teamPlayers == IF teamName = "White" THEN Len(gameState.whiteTeam)
                                        ELSE Len(gameState.blackTeam)
                         voteCount == Len(userTeam) + 1
                     IN  /\ activeGames' = MapSet(activeGames, JSStr(gameKey), voted)
                         /\ IF voteCount >= MajorityNeeded(teamPlayers)
                            THEN /\ Cardinality(pending) < MaxPending
                                 /\ pending' = pending \cup
                                        {Cont("resignFinish", gameKey, gameState.channelId, NoRow, TRUE)}
                                 /\ lastResult' = Answer("resign", "Resigned", voteCount)
                            ELSE /\ lastResult' = Answer("resign", "Voted", voteCount)
                                 /\ UNCHANGED pending
    /\ UNCHANGED <<userToChannel, db, clock>>

\* the rest of the resign handler after await displayGameAnalytics:
\* activeGames.delete(gameKey); if (gameState.channelId) deleteGame(db, channelId)
ResignFinish(p) ==
    /\ p.kind = "resignFinish"
    /\ activeGames' = MapDelete(activeGames, JSStr(p.key))
    /\ db' = IF p.channelId # NoChannel THEN DeleteGame(db, p.channelId) ELSE db
    /\ pending' = pending \ {p}
    /\ lastResult' = Answer("resign", "Ended", 0)
    /\ UNCHANGED <<userToChannel, clock>>

\* onText /resign
ResignCommand(chat) ==
    /\ IF ~MapHas(activeGames, ChatKey(chat.id))
       THEN /\ lastResult' = Answer("/resign", "NoGame", 0)
            /\ UNCHANGED activeGames
       ELSE /\ activeGames' = MapDelete(activeGames, ChatKey(chat.id))
            /\ lastResult' = Answer("/resign", "Ended", 0)
    /\ UNCHANGED <<userToChannel, db, clock, pending>>

\* -------------------------------------------------------------- environment

\* a slip: a timer task that clears roundEndTime of the sessions whose
\* cooldown is over when time passes
TickWithTimerTask ==
    /\ clock + TickStep <= StartClock + MaxTicks * TickStep
    /\ clock' = clock + TickStep
    /\ activeGames' =
           [k \in DOMAIN activeGames |->
               IF canMakeMove(activeGames[k], clock + TickStep)
               THEN [activeGames[k] EXCEPT !.roundEndTime = Absent]
               ELSE activeGames[k]]
    /\ UNCHANGED <<userToChannel, db, pending, lastResult>>

\* time passes
Tick ==
    /\ clock + TickStep <= StartClock + MaxTicks * TickStep
    /\ clock' = clock + TickStep
    /\ UNCHANGED <<activeGames, userToChannel, db, pending, lastResult>>

\* the process is stopped and started again: the Maps are new, games.db stays
Restart ==
    /\ activeGames' = EmptyMap
    /\ userToChannel' = EmptyMap
    /\ pending' = {}
    /\ lastResult' = NoAnswer(lastResult.on)
    /\ UNCHANGED <<db, clock>>

\* the environment addresses one game at a time: it creates or restores the
\* game of key k only while no game of another key is live or awaited
OneGame(k) ==
    /\ DOMAIN activeGames \subseteq {JSStr(k)}
    /\ \A p \in pending : p.key = k
CreatedKey(chat) == IF IsChannel(chat) THEN Str(chat.id) ELSE "default"

\* the players of the game specifications, the chats games are started in,
\* and the channel ids a deep link or a button carries
Players == {1, 2}
Creators == {PrivateChat(1), ChannelChat}
KeyStrings == {"default", Str(Channel), Str(1)}

\* the handlers, for the actors `players`, games started in `creators`, and
\* buttons and links that carry the ids `keys`
Handlers(players, creators, keys) ==
    \/ \E chat \in creators :
          OneGame(CreatedKey(chat)) /\ StartNewGameButton(chat)
    \/ \E chat \in creators :
          OneGame(Str(chat.id)) /\ NewGameCommand(chat)
    \/ \E p \in pending : ChannelSave(p)
    \/ \E u \in players, k \in keys : StartDeepLink(PrivateChat(u), k)
    \/ \E u \in players, k \in keys, t \in {"white", "black"} :
          JoinChannelTeam(PrivateChat(u), u, k, t)
    \/ \E u \in players, t \in {"white", "black"} : JoinTeamButton(PrivateChat(u), u, t)
    \/ \E u \in players, k \in keys :
          \E data \in {<<"join_game_", k>>, <<"join_game_", "white_", k>>,
                       <<"join_game_", "black_", k>>} :
              OneGame(k) /\ JoinGameButton(PrivateChat(u), u, data)
    \/ \E p \in pending : Restore(p)
    \/ \E chat \in {PrivateChat(u) : u \in players} \cup {ChannelChat} :
          \E u \in Senders(chat) \cap players, n \in Notations : MoveButton(chat, u, n)
    \/ \E p \in pending : MoveTail(p)
    \/ \E p \in pending : FanOut(p)
    \/ \E chat \in {PrivateChat(u) : u \in players} \cup {ChannelChat} :
          \E u \in Senders(chat) \cap players, n \in Notations : MoveCommand(chat, u, n)
    \/ \E u \in players : ResignButton(PrivateChat(u), u)
    \/ \E p \in pending : ResignFinish(p)
    \/ \E u \in players : ResignCommand(PrivateChat(u))

\* two players, every creation path, the clock
Next ==
    \/ Handlers(Players, Creators, KeyStrings)
    \/ Tick

Spec == Init /\ [][Next]_vars

\* two players, the channel's game, restarts of the process, no clock
NextPersist ==
    \/ Handlers(Players, {ChannelChat}, {Str(Channel)})
    \/ Restart

SpecPersist == Init /\ [][NextPersist]_vars

\* two players and the channel's game: started, linked, joined, played and
\* resigned while the clock runs, the answers observed
NextAnswers ==
    \/ StartNewGameButton(ChannelChat)
    \/ NewGameCommand(ChannelChat)
    \/ \E p \in pending : ChannelSave(p)
    \/ \E u \in Players : StartDeepLink(PrivateChat(u), Str(Channel))
    \/ \E u \in Players, t \in {"white", "black"} :
          JoinChannelTeam(PrivateChat(u), u, Str(Channel), t)
    \/ \E chat \in {PrivateChat(u) : u \in Players} \cup {ChannelChat} :
          \E u \in Senders(chat) \cap Players, n \in Notations : MoveButton(chat, u, n)
    \/ \E p \in pending : MoveTail(p)
    \/ \E p \in pending : FanOut(p)
    \/ \E chat \in {PrivateChat(u) : u \in Players} \cup {ChannelChat} :
          \E u \in Senders(chat) \cap Players, n \in Notations : MoveCommand(chat, u, n)
    \/ \E u \in Players : ResignButton(PrivateChat(u), u)
    \/ \E p \in pending : ResignFinish(p)
    \/ Tick

SpecAnswers == Started(Recorded) /\ [][NextAnswers]_vars

\* the channel's game with moves submitted in the private chats and in the
\* channel's own chat, which may follow the deep link as any chat may
RecordedMoves == {"move_", "/move"}

MoveChats == {PrivateChat(u) : u \in Players} \cup {ChannelChat}

NextChatType ==
    \/ NewGameCommand(ChannelChat)
    \/ \E p \in pending : ChannelSave(p)
    \/ \E chat \in MoveChats : StartDeepLink(chat, Str(Channel))
    \/ \E u \in Players, t \in {"white", "black"} :
          JoinChannelTeam(PrivateChat(u), u, Str(Channel), t)
    \/ \E chat \in MoveChats :
          \E u \in Senders(chat) \cap Players, n \in Notations : MoveButton(chat, u, n)
    \/ \E p \in pending : MoveTail(p)
    \/ \E p \in pending : FanOut(p)
    \/ \E chat \in MoveChats :
          \E u \in Senders(chat) \cap Players, n \in Notations : MoveCommand(chat, u, n)
    \/ Tick

SpecChatType == Started(RecordedMoves) /\ [][NextChatType]_vars

\* games started by /newgame in a private chat and in the channel, and the
\* commands sent in those chats afterwards; the channel's game is joined and
\* played from the private chats
RecordedCommands == {"/move", "/resign"}

NextCommands ==
    \/ \E chat \in Creators : NewGameCommand(chat)
    \/ \E p \in pending : ChannelSave(p)
    \/ \E u \in Players : StartDeepLink(PrivateChat(u), Str(Channel))
    \/ \E u \in Players, t \in {"white", "black"} :
          JoinChannelTeam(PrivateChat(u), u, Str(Channel), t)
    \/ \E u \in Players : MoveButton(PrivateChat(u), u, "quiet")
    \/ \E chat \in Creators :
          \E u \in Senders(chat) \cap Players : MoveCommand(chat, u, "quiet")
    \/ \E chat \in Creators : ResignCommand(chat)
    \/ Tick

SpecCommands == Started(RecordedCommands) /\ [][NextCommands]_vars

\* games started with the New Game button in two private chats and in the
\* channel, joined through the deep links that carry their keys, and played
\* for the one round that needs no wait
RecordedChats == {"start_newgame", "move_"}

ChatCreators == {PrivateChat(u) : u \in Players} \cup {ChannelChat}

NextChats ==
    \/ \E chat \in ChatCreators : StartNewGameButton(chat)
    \/ \E u \in Players, chat \in ChatCreators :
          StartDeepLink(PrivateChat(u), CreatedKey(chat))
    \/ \E u \in Players, chat \in ChatCreators, t \in {"white", "black"} :
          JoinChannelTeam(PrivateChat(u), u, CreatedKey(chat), t)
    \/ \E u \in Players : MoveButton(PrivateChat(u), u, "quiet")

SpecChats == Started(RecordedChats) /\ [][NextChats]_vars

\* the channel's game with two players and a third actor who follows the
\* link and may join late: moves submitted by all three, the clock
NextOrder ==
    \/ NewGameCommand(ChannelChat)
    \/ \E p \in pending : ChannelSave(p)
    \/ \E u \in Users : StartDeepLink(PrivateChat(u), Str(Channel))
    \/ \E j \in {<<1, "white">>, <<2, "black">>, <<3, "black">>} :
          JoinChannelTeam(PrivateChat(j[1]), j[1], Str(Channel), j[2])
    \/ \E u \in Users, n \in Notations : MoveButton(PrivateChat(u), u, n)
    \/ \E p \in pending : MoveTail(p)
    \/ \E p \in pending : FanOut(p)
    \/ Tick

SpecOrder == Started(RecordedMoves) /\ [][NextOrder]_vars

\* three actors, the games /newgame starts in a private chat and in the
\* channel, the joins of the channel's buttons and of join_white/join_black,
\* and resign votes
RecordedSwitch == {"resign", "join_white", "join_black"}

NextSwitch ==
    \/ \E chat \in Creators : NewGameCommand(chat)
    \/ \E p \in pending : ChannelSave(p)
    \/ \E u \in Users, t \in {"white", "black"} :
          JoinChannelTeam(PrivateChat(u), u, Str(Channel), t)
    \/ \E u \in Users, t \in {"white", "black"} : JoinTeamButton(PrivateChat(u), u, t)
    \/ \E u \in Users : ResignButton(PrivateChat(u), u)
    \/ \E p \in pending : ResignFinish(p)

SpecSwitch == Started(RecordedSwitch) /\ [][NextSwitch]_vars

\* the channel's game played by two actors, with saves that succeed and
\* saves that are rejected
NextFailures ==
    \/ NewGameCommand(ChannelChat)
    \/ \E p \in pending : ChannelSave(p)
    \/ \E u \in Players, t \in {"white", "black"} :
          JoinChannelTeam(PrivateChat(u), u, Str(Channel), t)
    \/ \E u \in Players, n \in Notations : MoveButton(PrivateChat(u), u, n)
    \/ \E u \in Players, n \in Notations : MoveButtonSaveRejected(PrivateChat(u), u, n)
    \/ \E p \in pending : MoveTail(p)
    \/ \E p \in pending : FanOut(p)
    \/ Tick

SpecFailures == Started(RecordedMoves) /\ [][NextFailures]_vars

\* three players voting in the channel's game, with the resign button and
\* the /resign command, the answers observed
NextVote ==
    \/ NewGameCommand(ChannelChat)
    \/ \E p \in pending : ChannelSave(p)
    \/ \E u \in Users, t \in {"white", "black"} :
          JoinChannelTeam(PrivateChat(u), u, Str(Channel), t)
    \/ \E u \in Users : ResignButton(PrivateChat(u), u)
    \/ \E p \in pending : ResignFinish(p)
    \/ \E u \in Users : ResignCommand(PrivateChat(u))

SpecVote == Started(Recorded) /\ [][NextVote]_vars

\* the join paths: the games of the channel and of private chat 1, created
\* with /newgame, joined through every join handler by two actors, the
\* process restarted, the answers of the joins observed
JoinData(k) ==
    {<<"join_game_", k>>, <<"join_game_", "white_", k>>, <<"join_game_", "black_", k>>}
NextJoins ==
    \/ \E chat \in Creators : NewGameCommand(chat)
    \/ \E p \in pending : ChannelSave(p)
    \/ \E u \in Players : StartDeepLink(PrivateChat(u), Str(Channel))
    \/ \E u \in Players, t \in {"white", "black"} :
          JoinChannelTeam(PrivateChat(u), u, Str(Channel), t)
    \/ \E u \in Players, t \in {"white", "black"} : JoinTeamButton(PrivateChat(u), u, t)
    \/ \E u \in Players, data \in JoinData(Str(Channel)) :
          JoinGameButton(PrivateChat(u), u, data)
    \/ \E p \in pending : Restore(p)
    \/ Restart

SpecJoins == Started(RecordedJoins) /\ [][NextJoins]_vars

\* routing: two channels with a game each, created with /newgame; actor 1
\* follows the deep links and join buttons of both channels and actor 2 those
\* of the first; they move, vote to resign, refresh and read the history,
\* the answers of all but the joins observed
OtherChannel == 0 - 2
OtherChannelChat == [id |-> OtherChannel, type |-> "channel"]
ChannelKeys == {Str(Channel), Str(OtherChannel)}
\* who follows the links and buttons of which channel
Follows == {<<1, Str(Channel)>>, <<1, Str(OtherChannel)>>, <<2, Str(Channel)>>}
NextRouting ==
    \/ \E chat \in {ChannelChat, OtherChannelChat} : NewGameCommand(chat)
    \/ \E p \in pending : ChannelSave(p)
    \/ \E f \in Follows : StartDeepLink(PrivateChat(f[1]), f[2])
    \/ \E f \in Follows, t \in {"white", "black"} :
          JoinChannelTeam(PrivateChat(f[1]), f[1], f[2], t)
    \/ \E u \in Players : MoveButton(PrivateChat(u), u, "quiet")
    \/ \E u \in Players : ResignButton(PrivateChat(u), u)
    \/ \E p \in pending : ResignFinish(p)
    \/ \E u \in Players : RefreshButton(PrivateChat(u))
    \/ \E u \in Players : ShowHistoryButton(PrivateChat(u))

SpecRouting == Started(RecordedRouting) /\ [][NextRouting]_vars

\* ------------------------------------------------- the pacing functions
\* canMakeMove and getRemainingDelay applied to sessions whose pacing fields
\* and clock are drawn from sets

ProbeDelays == {0, 450, 900}
PacingConfigs ==
    {NoMoveDelay,
     [defined |-> TRUE, enabled |-> FALSE, baseDelay |-> BaseDelay, increment |-> Increment]}
    \cup {[defined |-> TRUE, enabled |-> TRUE, baseDelay |-> b, increment |-> i] :
             b \in ProbeDelays, i \in ProbeDelays}
\* milliseconds since roundEndTime
ProbeElapsed == {0, 1, 449999, 450000, 899999, 900000, 1799999, 1800000, 2700000}
ProbeMoveNumbers == {Absent} \cup (0..MaxPly)
ProbeSessions ==
    {[ChannelSession(Channel) EXCEPT !.moveDelay = d, !.moveNumber = m, !.roundEndTime = r] :
        d \in PacingConfigs, m \in ProbeMoveNumbers, r \in {Absent, StartClock}}

InitPacing ==
    /\ activeGames \in {MapSet(EmptyMap, JSStr(Str(Channel)), g) : g \in ProbeSessions}
    /\ clock \in {StartClock + e : e \in ProbeElapsed}
    /\ userToChannel = EmptyMap
    /\ db = EmptyMap
    /\ pending = {}
    /\ lastResult = NoAnswer(Recorded)

\* canMakeMove(gameState) of a session of the registry
ProbeCanMakeMove(k) ==
    /\ lastResult' = [on |-> lastResult.on, op |-> "canMakeMove",
                      outcome |-> IF canMakeMove(activeGames[k], clock)
                                  THEN "Allowed" ELSE "Blocked",
                      remaining |-> 0]
    /\ UNCHANGED <<activeGames, userToChannel, db, clock, pending>>

\* getRemainingDelay(gameState) of a session of the registry
ProbeRemaining(k) ==
    /\ lastResult' = [on |-> lastResult.on, op |-> "getRemainingDelay", outcome |-> "none",
                      remaining |-> getRemainingDelay(activeGames[k], clock)]
    /\ UNCHANGED <<activeGames, userToChannel, db, clock, pending>>

NextPacing ==
    \/ \E k \in DOMAIN activeGames : ProbeCanMakeMove(k)
    \/ \E k \in DOMAIN activeGames : ProbeRemaining(k)

SpecPacing == InitPacing /\ [][NextPacing]_vars

\* ------------------------------------------------------------------ claims

Sessions == {activeGames[k] : k \in DOMAIN activeGames}
\* milliseconds since the session's roundEndTime
Elapsed(gameState) == clock - gameState.roundEndTime
Paced(gameState) == gameState.moveDelay.defined /\ gameState.moveDelay.enabled
OddMoveNumber(gameState) == OrZero(gameState.moveNumber) % 2 = 1

Last(arr) == arr[Len(arr)]
\* the keys of the sessions a step keeps
Kept == DOMAIN activeGames \cap DOMAIN activeGames'
Members(gameState) == Elems(gameState.whiteTeam) \cup Elems(gameState.blackTeam)
SameTeams(g, h) == g.whiteTeam = h.whiteTeam /\ g.blackTeam = h.blackTeam

\* C1: in every session of the registry no actor is on both whiteTeam and
\* blackTeam, whatever joins, moves, resign votes and restores came before
C1_TeamsDisjoint ==
    \A g \in Sessions : Elems(g.whiteTeam) \cap Elems(g.blackTeam) = {}

\* a session restored from its row after a ply, both teams manned, a vote cast
C1_Witness ==
    \E g \in Sessions :
        /\ g.game.ply >= 1 /\ g.game.hist = 0
        /\ g.whiteTeam # <<>> /\ g.blackTeam # <<>>
        /\ g.resignVotes.white # <<>>

\* the session a private chat's move_ button addresses
Addressed(u) == activeGames[JSStr(ResolveKey(PrivateChat(u)))]
Addresses(u) == HasGame(PrivateChat(u)) /\ ResolveKey(PrivateChat(u)) # NoKey

\* the answers of the handlers to an actor who is not on the team to move
C2_Answers ==
    \A u \in Users, n \in Notations :
        /\ Addresses(u) =>
              LET g == Addressed(u)
                  out == MoveButtonOutcome(PrivateChat(u), u, n)
                  toMove == Includes(TeamOf(g, Turn(g.game)), u)
              IN  /\ out = "Applied" => toMove
                  /\ ~IsGameOver(g.game) =>
                        /\ ~OnAnyTeam(g, u) => out = "NotOnAnyTeam"
                        /\ (OnAnyTeam(g, u) /\ ~toMove) =>
                              out = IF canMakeMove(g, clock) THEN "WrongTeam"
                                    ELSE "PacingBlocked"
        /\ MoveCommandOutcome(PrivateChat(u), u, n) = "Applied" =>
              Includes(TeamOf(activeGames[ChatKey(u)], Turn(activeGames[ChatKey(u)].game)), u)

\* a step that appends a ply to a session appends one of an actor who was on
\* the team of the side to move, and leaves the teams alone
C2_Applied ==
    \A k \in Kept :
        LET g == activeGames[k]
            h == activeGames'[k]
        IN  Len(h.moveHistory) > Len(g.moveHistory) =>
                /\ h.moveHistory = Append(g.moveHistory, Last(h.moveHistory))
                /\ Last(h.moveHistory).side = Turn(g.game)
                /\ Includes(TeamOf(g, Turn(g.game)), Last(h.moveHistory).player)
                /\ SameTeams(g, h)

C3_HistoryLengthIsMoveNumber ==
    \A g \in Sessions : Len(g.moveHistory) = g.moveNumber

\* C4, as claimed: roundEndTime is non-null iff moveNumber is positive and even
C4_RoundEndTimeIffEven ==
    \A g \in Sessions :
        g.roundEndTime # Absent <=> (g.moveNumber > 0 /\ g.moveNumber % 2 = 0)

\* C4, amended: roundEndTime is non-null iff moveNumber is at least 2; it is
\* set by the second ply and kept, not cleared, while moveNumber is odd
C4_RoundEndTimeFromSecondPly ==
    \A g \in Sessions : g.roundEndTime # Absent <=> g.moveNumber >= 2

\* the third ply applied: moveNumber odd, roundEndTime still set
C4_Witness ==
    \E g \in Sessions : g.moveNumber = 3 /\ g.roundEndTime # Absent

\* C5: a move submission that is rejected (game over, actor on no team,
\* cooldown, wrong team, notation refused) leaves every session as it was:
\* position, moveHistory, moveNumber, roundEndTime, capturedPieces, teams and
\* resignVotes; and no ply is appended to a session whose position is over
C5_RejectedMoveChangesNothing ==
    [][/\ (lastResult'.op = "move_" /\ lastResult'.outcome # "Applied") =>
              activeGames' = activeGames
       /\ \A k \in Kept :
              IsGameOver(activeGames[k].game) =>
                  /\ Len(activeGames'[k].moveHistory) <= Len(activeGames[k].moveHistory)
                  /\ activeGames'[k].game.hist <= activeGames[k].game.hist
                  /\ OrZero(activeGames'[k].moveNumber) <= OrZero(activeGames[k].moveNumber)
      ]_vars

\* a notation refused by the oracle, in a session with plies played
C5_Witness ==
    /\ lastResult.op = "move_" /\ lastResult.outcome = "IllegalMove"
    /\ \E g \in Sessions : Len(g.moveHistory) >= 1

\* C6: a session whose moveNumber is odd is allowed to move by canMakeMove,
\* whatever the clock, roundEndTime, baseDelay and increment are
C6_OddMoveNumberAllowed ==
    \A g \in Sessions :
        OddMoveNumber(g) =>
            /\ canMakeMove(g, clock)
            /\ lastResult.op = "canMakeMove" => lastResult.outcome = "Allowed"

\* an odd moveNumber with a cooldown that would block an even one, probed
C6_Witness ==
    \E g \in Sessions :
        /\ OddMoveNumber(g) /\ Paced(g) /\ g.roundEndTime # Absent
        /\ Elapsed(g) < 1000 * g.moveDelay.baseDelay
        /\ g.moveDelay.baseDelay > 0
        /\ lastResult.op = "canMakeMove" /\ lastResult.outcome = "Allowed"

\* seconds required after the round that moveNumber completes
ClaimedDelay(baseDelay, increment, moveNumber) ==
    baseDelay + increment * ((moveNumber \div 2) - 1)

\* C7: with pacing enabled, moveNumber even and roundEndTime set, the move
\* is allowed iff the time since roundEndTime is at least baseDelay +
\* increment * (moveNumber/2 - 1) seconds: with 900/900, 900 s at moveNumber
\* 2 and 1800 s at moveNumber 4, one increment more per completed round
C7_AllowedIffDelayElapsed ==
    \A g \in Sessions :
        (Paced(g) /\ ~OddMoveNumber(g) /\ g.roundEndTime # Absent) =>
            LET m == OrZero(g.moveNumber)
                allowed == canMakeMove(g, clock)
            IN  /\ allowed <=>
                      Elapsed(g) >= 1000 * ClaimedDelay(g.moveDelay.baseDelay,
                                                        g.moveDelay.increment, m)
                /\ (g.moveDelay = DefaultMoveDelay /\ m = 2) =>
                      (allowed <=> Elapsed(g) >= 900000)
                /\ (g.moveDelay = DefaultMoveDelay /\ m = 4) =>
                      (allowed <=> Elapsed(g) >= 1800000)
                /\ (g.moveDelay = DefaultMoveDelay /\ m >= 2) =>
                      RequiredDelay([g EXCEPT !.moveNumber = m + 2])
                          = RequiredDelay(g) + 900
                /\ lastResult.op = "canMakeMove" =>
                      (lastResult.outcome = "Allowed" <=> allowed)

\* default pacing after round 2: blocked one millisecond before 1800 s
C7_Witness ==
    \E g \in Sessions :
        /\ g.moveDelay = DefaultMoveDelay /\ g.moveNumber = 4 /\ g.roundEndTime # Absent
        /\ Elapsed(g) = 1799999
        /\ lastResult.op = "canMakeMove" /\ lastResult.outcome = "Blocked"

\* Math.ceil(ms / 1000), floored at zero
CeilSeconds(ms) == IF ms <= 0 THEN 0 ELSE (ms + 999) \div 1000
\* a round is complete and its cooldown, at the default pacing, has not elapsed
CoolingDown(g) ==
    /\ g.moveDelay = DefaultMoveDelay
    /\ g.moveNumber >= 2 /\ g.moveNumber % 2 = 0
    /\ g.roundEndTime # Absent
    /\ Elapsed(g) < 1000 * ClaimedDelay(900, 900, g.moveNumber)

\* C8, as claimed: in a session with the default pacing (900/900), after the
\* second ply of a round and before the cooldown has elapsed, every move
\* submitted by a member of either team is answered PacingBlocked
C8_CooldownBlocksEveryMove ==
    \A g \in Sessions :
        CoolingDown(g) =>
            \A u \in Members(g), n \in Notations :
                MoveButtonOutcome(PrivateChat(u), u, n) = "PacingBlocked"

\* C8, amended: in a session with the default pacing (900/900), after the
\* second ply of a round, before the cooldown has elapsed and while the
\* position is not over, every move a member of either team submits from a
\* private chat linked to the session is answered PacingBlocked, with the
\* remaining time ceil(requiredDelay - elapsed) floored at zero: 900 at zero
\* elapsed time after round 1
C8_CooldownBlocksBothTeams ==
    /\ \A g \in Sessions :
          (CoolingDown(g) /\ ~IsGameOver(g.game)) =>
              /\ \A u \in Members(g), n \in Notations :
                    (Addresses(u) /\ Addressed(u) = g) =>
                        MoveButtonOutcome(PrivateChat(u), u, n) = "PacingBlocked"
              /\ getRemainingDelay(g, clock) =
                    CeilSeconds(1000 * ClaimedDelay(900, 900, g.moveNumber) - Elapsed(g))
              /\ (g.moveNumber = 2 /\ Elapsed(g) = 0) => getRemainingDelay(g, clock) = 900
    /\ (lastResult.op = "move_" /\ lastResult.outcome = "PacingBlocked") =>
          lastResult.remaining >= 1

\* both teams manned, round 1 just completed, a submission answered
\* PacingBlocked with 900 seconds left
C8_Witness ==
    /\ lastResult.op = "move_" /\ lastResult.outcome = "PacingBlocked"
    /\ lastResult.remaining = 900
    /\ \E g \in Sessions :
          /\ CoolingDown(g) /\ g.moveNumber = 2 /\ Elapsed(g) = 0
          /\ g.whiteTeam # <<>> /\ g.blackTeam # <<>>

Sides == {"white", "black"}
VotesOf(g, side) == IF side = "white" THEN g.resignVotes.white ELSE g.resignVotes.black
TeamOfSide(g, side) == IF side = "white" THEN g.whiteTeam ELSE g.blackTeam
OtherSide(side) == IF side = "white" THEN "black" ELSE "white"

\* a step that changes the resign votes of session k is the vote of one
\* member: the member is appended to the team's votes and the session is
\* sent to its end iff the votes now number at least ceil(teamSize / 2)
C9_VoteStep(k) ==
    LET g == activeGames[k]
        h == activeGames'[k]
    IN  \E side \in Sides :
            /\ VotesOf(h, OtherSide(side)) = VotesOf(g, OtherSide(side))
            /\ SameTeams(g, h)
            /\ \E u \in Elems(TeamOfSide(g, side)) :
                  /\ ~Includes(VotesOf(g, side), u)
                  /\ VotesOf(h, side) = Append(VotesOf(g, side), u)
            /\ IF 2 * Len(VotesOf(h, side)) >= Len(TeamOfSide(g, side))
               THEN /\ \E p \in pending' : p.kind = "resignFinish" /\ JSStr(p.key) = k
                    /\ lastResult'.outcome = "Resigned"
               ELSE /\ pending' = pending
                    /\ lastResult'.outcome = "Voted"

C10_ResignNeedsMoreThanHalf ==
    [][\A k \in Kept : \A side \in Sides :
          (/\ VotesOf(activeGames'[k], side) # VotesOf(activeGames[k], side)
           /\ lastResult'.op = "resign" /\ lastResult'.outcome = "Resigned") =>
              2 * Len(VotesOf(activeGames'[k], side)) >
                  Len(TeamOfSide(activeGames[k], side))
      ]_vars

\* C11: the /resign text command is a vote: sent by a member of a team of the
\* session the sender plays in who has not voted yet, it is answered as a
\* vote (recorded, or the game resigned once the team's majority is reached);
\* sent by an actor on neither team of that session, it is refused as such
C11_ResignCommandIsVote ==
    [][\A u \in Users :
          (ResignCommand(PrivateChat(u)) /\ ResolveKey(PrivateChat(u)) # NoKey) =>
              LET g == activeGames[JSStr(ResolveKey(PrivateChat(u)))] IN
              IF u \in Members(g)
              THEN (\A side \in Sides : ~Includes(VotesOf(g, side), u)) =>
                       lastResult'.outcome \in {"Voted", "Resigned"}
              ELSE lastResult'.outcome = "NotOnAnyTeam"
      ]_vars

\* C12: creating a game for a key that maps to a live session fails and
\* leaves the registry as it was, on every creation path: the start_newgame
\* button, the /newgame command and, through it, startGameInChannel
C12_CreateKeepsLiveSession ==
    [][\A chat \in Creators :
          /\ (StartNewGameButton(chat) /\ MapHas(activeGames, JSStr(CreatedKey(chat)))) =>
                 activeGames' = activeGames
          /\ (NewGameCommand(chat) /\ MapHas(activeGames, JSStr(Str(chat.id)))) =>
                 activeGames' = activeGames
      ]_vars

\* the handlers still suspended on the session of key k
InFlight(k) == {p \in pending : JSStr(p.key) = k}

\* C13: once the handler of a move that left the position over has finished,
\* the session is gone from the registry (a session whose position is over is
\* in the registry only while a handler is still suspended on it), so that a
\* /newgame for the same key then creates a new game
C13_FinishedSessionRemoved ==
    /\ [] (\A k \in DOMAIN activeGames :
              IsGameOver(activeGames[k].game) => InFlight(k) # {})
    /\ [][(/\ NewGameCommand(ChannelChat)
           /\ MapHas(activeGames, JSStr(Str(Channel)))
           /\ IsGameOver(activeGames[JSStr(Str(Channel))].game)
           /\ InFlight(JSStr(Str(Channel))) = {}) =>
              /\ MapHas(activeGames', JSStr(Str(Channel)))
              /\ activeGames'[JSStr(Str(Channel))].game = NewChess
         ]_vars

NoDuplicates(arr) == Cardinality(Elems(arr)) = Len(arr)
\* a step of one of the join handlers, taken by actor u for team t of key k
JoinStep(u, k, t) ==
    \/ JoinChannelTeam(PrivateChat(u), u, k, t)
    \/ JoinTeamButton(PrivateChat(u), u, t) /\ JSStr(k) = ChatKey(u)
    \/ JoinGameButton(PrivateChat(u), u, <<"join_game_", t \o "_", k>>)

CrossJoin(u, k, t) ==
    /\ MapHas(activeGames, JSStr(k))
    /\ Includes(TeamOfSide(activeGames[JSStr(k)], OtherSide(t)), u)
    /\ JoinStep(u, k, t)

C17_JoinRoutesActor ==
    [][\A f \in Follows, t \in Sides :
          (/\ MapHas(activeGames, JSStr(f[2]))
           /\ JoinChannelTeam(PrivateChat(f[1]), f[1], f[2], t)) =>
              /\ MapHas(userToChannel', Str(f[1]))
              /\ userToChannel'[Str(f[1])] = f[2]
              /\ Includes(activeGames'[JSStr(f[2])].joinedUsers, f[1])
      ]_vars

\* C18: the lookup of move_, resign, refresh and show_history prefers the
\* direct key: while a live session is keyed by the actor's own chat id the
\* lookup finds that session, whatever the actor's routing entry points to
C18_DirectKeyFirst ==
    \A u \in Users :
        MapHas(activeGames, JSStr(Str(u))) => ResolveKey(PrivateChat(u)) = Str(u)

\* C19: last join wins.  The routing table holds the key of the actor's most
\* recent join: right after a join of the session of key k, the lookup of
\* the actor's next move, resign or refresh finds k; and a move or a resign
\* vote changes no session but the one the actor's entry names
C19_LastJoinWins ==
    [][/\ \A f \in Follows, t \in Sides :
             (/\ MapHas(activeGames, JSStr(f[2]))
              /\ JoinChannelTeam(PrivateChat(f[1]), f[1], f[2], t)) =>
                 ResolveKey(PrivateChat(f[1]))' = f[2]
       /\ \A u \in Players :
             (/\ MapHas(userToChannel, Str(u))
              /\ \/ MoveButton(PrivateChat(u), u, "quiet")
                 \/ ResignButton(PrivateChat(u), u)
                 \/ RefreshButton(PrivateChat(u))) =>
                 \A j \in DOMAIN activeGames :
                     j # JSStr(userToChannel[Str(u)]) =>
                         MapHas(activeGames', j) /\ activeGames'[j] = activeGames[j]
      ]_vars

\* the session of key k has ended: a resign vote has removed it from the
\* registry, or a move has left its position over and the handler of that
\* move has finished
Ended(k) ==
    \/ ~MapHas(activeGames, k)
    \/ IsGameOver(activeGames[k].game) /\ InFlight(k) = {}
\* the actor's routing entry names the key of a session that has ended
Stale(u) ==
    /\ MapHas(userToChannel, Str(u))
    /\ Ended(JSStr(userToChannel[Str(u)]))
\* a step of one of the handlers that look a session up, taken by actor u
\* and observed
LookupStep(u) ==
    /\ lastResult'.op \in {"move_", "resign", "refresh", "show_history"}
    /\ \/ MoveButton(PrivateChat(u), u, "quiet")
       \/ ResignButton(PrivateChat(u), u)
       \/ RefreshButton(PrivateChat(u))
       \/ ShowHistoryButton(PrivateChat(u))

\* C20: no step deletes a routing entry; the step that ends a session leaves
\* the routing table as it is, entries that name the ended session included;
\* and a move, resign, refresh or history request of an actor whose entry
\* names an ended session is answered "no game" and changes no Map, no row
\* and starts no continuation
C20_StaleEntryFindsNothing ==
    [][/\ DOMAIN userToChannel \subseteq DOMAIN userToChannel'
       /\ DOMAIN activeGames \ DOMAIN activeGames' # {} => userToChannel' = userToChannel
       /\ \A u \in Players :
             (Stale(u) /\ LookupStep(u)) =>
                 /\ lastResult'.outcome = "NoGame"
                 /\ UNCHANGED <<activeGames, userToChannel, db, pending>>
      ]_vars

\* C21: a move submitted in a chat that is not private, by the move_ button
\* or by /move, is refused and changes no Map, no row and starts no
\* continuation; a step that appends a ply to a session is a move_ submitted
\* in a private chat
C21_MovesOnlyFromPrivateChat ==
    [][/\ \A u \in Players, n \in Notations :
             (/\ lastResult'.op \in {"move_", "/move"}
              /\ MoveButton(ChannelChat, u, n) \/ MoveCommand(ChannelChat, u, n)) =>
                 /\ lastResult'.outcome \in {"NotPrivate", "Ignored"}
                 /\ UNCHANGED <<activeGames, userToChannel, db, pending>>
       /\ \A k \in Kept :
             Len(activeGames'[k].moveHistory) > Len(activeGames[k].moveHistory) =>
                 \E u \in Players, n \in Notations :
                     /\ PrivateChat(u).type = "private"
                     /\ MoveButton(PrivateChat(u), u, n)
      ]_vars

\* the channel's chat is linked to the channel's game, which is being
\* played, and a move button pressed there has been refused
C21_Witness ==
    /\ lastResult.op = "move_" /\ lastResult.outcome = "NotPrivate"
    /\ MapHas(userToChannel, Str(Channel))
    /\ \E g \in Sessions :
          g.whiteTeam # <<>> /\ g.blackTeam # <<>> /\ ~IsGameOver(g.game) /\ g.game.ply >= 1

\* C22: the controls showGameStatus sends to a private actor contain move
\* buttons only if the actor is on the team of the side to move (here: the
\* board sent again by the refresh button), and the board posted in the
\* channel has neither move buttons nor the resign button
C22_MoveButtonsOnlyOnOwnTurn ==
    [][/\ \A u \in Players :
             (/\ lastResult'.op = "refresh" /\ lastResult'.outcome = "Shown"
              /\ RefreshButton(PrivateChat(u))) =>
                 LET gameState == activeGames[JSStr(ResolveKey(PrivateChat(u)))]
                     controls == ShowGameStatus(PrivateChat(u).id, gameState, TRUE)
                 IN  controls.moves # {} =>
                         Includes(TeamOf(gameState, Turn(gameState.game)), u)
       /\ \A g \in Sessions :
             g.channelId # NoChannel =>
                 LET post == ShowGameStatus(g.channelId, g, FALSE)
                 IN  post.moves = {} /\ ~post.resign
      ]_vars

\* C23: an actor on no team who, having chosen the game of key k from the
\* list, presses Join White or Join Black (data join_game_white_<k> or
\* join_game_black_<k>) is on that team of the session of key k after the
\* step, and the routing table maps the actor to k
C23_ListJoinPutsActorOnTeam ==
    [][\A u \in Players, t \in Sides :
          LET k == Str(Channel) IN
          (/\ MapHas(activeGames, JSStr(k))
           /\ ~OnAnyTeam(activeGames[JSStr(k)], u)
           /\ JoinGameButton(PrivateChat(u), u, <<"join_game_", t \o "_", k>>)) =>
              /\ MapHas(activeGames', JSStr(k))
              /\ Includes(TeamOfSide(activeGames'[JSStr(k)], t), u)
              /\ MapHas(userToChannel', Str(u))
              /\ userToChannel'[Str(u)] = k
      ]_vars

\* C24: the game /newgame created in a chat is the one the commands sent in
\* that chat afterwards find: while the session stored by /newgame in a chat
\* is in the registry, /resign in that chat ends that session and /move in
\* that chat is not answered with "No active game found"
C24_CommandsFindNewGame ==
    [][\A chat \in Creators :
          MapHas(activeGames, JSStr(Str(chat.id))) =>
              /\ (lastResult'.op = "/resign" /\ ResignCommand(chat)) =>
                     /\ lastResult'.outcome = "Ended"
                     /\ ~MapHas(activeGames', JSStr(Str(chat.id)))
              /\ \A u \in Senders(chat) \cap Players :
                     (lastResult'.op = "/move" /\ MoveCommand(chat, u, "quiet")) =>
                         lastResult'.outcome # "NoGame"
      ]_vars

\* C25: each chat has its own game.  While the session a creation in chat c1
\* stores is in the registry, a New Game button pressed in another chat c2
\* leaves that session in place and as it was; and a move button pressed in
\* a chat with no routing entry changes no session but the chat's own
C25_ChatsIndependent ==
    [][/\ \A c1 \in ChatCreators : \A c2 \in ChatCreators \ {c1} :
             (/\ MapHas(activeGames, JSStr(CreatedKey(c1)))
              /\ lastResult'.op = "start_newgame"
              /\ StartNewGameButton(c2)) =>
                 /\ MapHas(activeGames', JSStr(CreatedKey(c1)))
                 /\ activeGames'[JSStr(CreatedKey(c1))] = activeGames[JSStr(CreatedKey(c1))]
       /\ \A u \in Players :
             (/\ ~MapHas(userToChannel, Str(u))
              /\ lastResult'.op = "move_"
              /\ MoveButton(PrivateChat(u), u, "quiet")) =>
                 \A j \in DOMAIN activeGames \ {JSStr(CreatedKey(PrivateChat(u)))} :
                     MapHas(activeGames', j) /\ activeGames'[j] = activeGames[j]
      ]_vars

\* C26: the checks of a move submission come in the order game over, team
\* membership, cooldown, turn, legality, each masking the later ones: while
\* a cooldown is active an actor on no team is answered NotOnAnyTeam and a
\* member of the team that is not to move PacingBlocked, not WrongTeam; and
\* the answer the handler gave is one of the ordered answers or Applied
C26_CheckOrder ==
    /\ \A u \in Users, n \in Notations :
          Addresses(u) =>
              LET g == Addressed(u)
                  out == MoveButtonOutcome(PrivateChat(u), u, n)
                  toMove == Includes(TeamOf(g, Turn(g.game)), u)
              IN  /\ IsGameOver(g.game) => out = "GameOver"
                  /\ (~IsGameOver(g.game) /\ CoolingDown(g)) =>
                        /\ ~OnAnyTeam(g, u) => out = "NotOnAnyTeam"
                        /\ OnAnyTeam(g, u) => out = "PacingBlocked"
                  /\ (~IsGameOver(g.game) /\ canMakeMove(g, clock) /\ OnAnyTeam(g, u)) =>
                        /\ ~toMove => out = "WrongTeam"
                        /\ (toMove /\ n \notin LegalMoves(g.game)) => out = "IllegalMove"
    /\ (lastResult.op = "move_" /\ lastResult.outcome = "NotOnAnyTeam") =>
          \E g \in Sessions : \E u \in Users : ~OnAnyTeam(g, u)

\* a round is complete and its cooldown runs, and an actor on no team has
\* pressed a move button
C26_Witness ==
    /\ lastResult.op = "move_" /\ lastResult.outcome = "NotOnAnyTeam"
    /\ \E g \in Sessions :
          /\ CoolingDown(g) /\ ~IsGameOver(g.game)
          /\ \E u \in Users : Addresses(u) /\ Addressed(u) = g /\ ~OnAnyTeam(g, u)

\* C27: once a resign vote has reached the majority the session is ended at
\* once: from that vote on, while the session is still in the registry, no
\* step appends a ply, a team member or a further vote to it
C27_NothingAppliedAfterMajority ==
    [][\A k \in Kept :
          (\E p \in InFlight(k) : p.kind = "resignFinish") =>
              LET g == activeGames[k]
                  h == activeGames'[k]
              IN  /\ Len(h.moveHistory) <= Len(g.moveHistory)
                  /\ \A side \in Sides :
                        /\ Len(TeamOfSide(h, side)) <= Len(TeamOfSide(g, side))
                        /\ Len(VotesOf(h, side)) <= Len(VotesOf(g, side))
      ]_vars

\* C28: however move submissions interleave, one ply is applied per turn:
\* consecutive entries of every moveHistory are of opposite sides, a step
\* appends at most one entry, and the entry's actor was on the team of the
\* side to move in the state the step started from
C28_OnePlyPerTurn ==
    /\ [] (\A g \in Sessions : \A i \in 1 .. (Len(g.moveHistory) - 1) :
               g.moveHistory[i].side # g.moveHistory[i + 1].side)
    /\ [][\A k \in Kept :
              LET g == activeGames[k]
                  h == activeGames'[k]
              IN  Len(h.moveHistory) > Len(g.moveHistory) =>
                      /\ Len(h.moveHistory) = Len(g.moveHistory) + 1
                      /\ SubSeq(h.moveHistory, 1, Len(g.moveHistory)) = g.moveHistory
                      /\ Turn(h.game) # Turn(g.game)
                      /\ Includes(TeamOf(g, Turn(g.game)), Last(h.moveHistory).player)
         ]_vars

\* two members of black have both submitted a move for the same turn: one
\* ply was applied and the other submission was answered WrongTeam
C28_Witness ==
    /\ lastResult.op = "move_" /\ lastResult.outcome = "WrongTeam"
    /\ \E g \in Sessions :
          /\ Len(g.moveHistory) >= 2 /\ Len(g.blackTeam) = 2
          /\ Last(g.moveHistory).side # Turn(g.game)

\* C29: when the channel's session has been ended, by a resignation majority
\* or by a move that ends the game, and every handler in flight for its key
\* has finished, table games has no row for the key, whatever moves and
\* joins that save the session were delivered meanwhile
C29_NoRowAfterEnd ==
    LET k == Str(Channel) IN
    (Ended(JSStr(k)) /\ InFlight(JSStr(k)) = {}) => ~MapHas(db, k)

\* C30: a resign vote by an actor who is already in the vote set of their
\* team changes nothing: the session with its votes and teams, the registry,
\* the routing table and the table of rows are as before, no termination is
\* started, and the answer is AlreadyVoted, whatever the size of the team now
C30_RepeatedVoteChangesNothing ==
    [][\A u \in Users :
          (/\ Addresses(u)
           /\ \E side \in Sides :
                 /\ Includes(TeamOfSide(Addressed(u), side), u)
                 /\ Includes(VotesOf(Addressed(u), side), u)
           /\ lastResult'.op = "resign"
           /\ ResignButton(PrivateChat(u), u)) =>
              /\ lastResult'.outcome = "AlreadyVoted"
              /\ UNCHANGED <<activeGames, userToChannel, db, pending>>
      ]_vars

\* a team of three with one vote, short of the two needed, and its voter
\* has pressed Resign again
C30_Witness ==
    /\ lastResult.op = "resign" /\ lastResult.outcome = "AlreadyVoted"
    /\ \E g \in Sessions : \E side \in Sides :
          Len(TeamOfSide(g, side)) = 3 /\ Len(VotesOf(g, side)) = 1

C33_FailedSaveKeepsMove ==
    [][/\ (/\ lastResult'.op = "move_" /\ lastResult'.outcome = "SaveFailed"
           /\ \E u \in Players, n \in Notations :
                 MoveButtonSaveRejected(PrivateChat(u), u, n)) =>
             \E k \in Kept :
                 LET g == activeGames[k]
                     h == activeGames'[k]
                 IN  /\ h.game.ply = g.game.ply + 1
                     /\ OrZero(h.moveNumber) = OrZero(g.moveNumber) + 1
                     /\ Len(h.moveHistory) = Len(g.moveHistory) + 1
                     /\ SubSeq(h.moveHistory, 1, Len(g.moveHistory)) = g.moveHistory
                     /\ Last(h.moveHistory).number = Len(h.moveHistory)
                     /\ Turn(h.game) # Turn(g.game)
       /\ \A k \in Kept :
             LET g == activeGames[k]
                 h == activeGames'[k]
             IN  /\ h.game.ply >= g.game.ply
                 /\ OrZero(h.moveNumber) >= OrZero(g.moveNumber)
                 /\ Len(h.moveHistory) >= Len(g.moveHistory)
      ]_vars

\* a move has been applied, its save was rejected, and the row of the game
\* still shows an earlier position
C33_Witness ==
    /\ lastResult.op = "move_" /\ lastResult.outcome = "SaveFailed"
    /\ \E g \in Sessions :
          /\ Len(g.moveHistory) >= 2
          /\ MapHas(db, g.channelId)
          /\ db[g.channelId] # RowOf(g)

\* C34: in every session every member of a team is in joinedUsers, also in
\* a session rebuilt from its row
C34_MembersAreJoinedUsers ==
    \A g \in Sessions : Members(g) \subseteq Elems(g.joinedUsers)

\* C35: a session placed in the registry by a creation (the New Game button,
\* /newgame in a private chat or in a channel) has empty teams, an empty
\* moveHistory, empty capturedPieces, moveNumber 0, no roundEndTime and the
\* pacing enabled with 900 s base delay and 900 s increment
C35_CreatedSessionIsFresh ==
    [][\A chat \in Creators :
          (/\ activeGames' # activeGames
           /\ StartNewGameButton(chat) \/ NewGameCommand(chat)) =>
              \A k \in DOMAIN activeGames' :
                  (k \notin DOMAIN activeGames \/ activeGames'[k] # activeGames[k]) =>
                      LET g == activeGames'[k]
                      IN  /\ g.whiteTeam = <<>> /\ g.blackTeam = <<>>
                          /\ g.moveHistory = <<>>
                          /\ g.capturedPieces = [white |-> <<>>, black |-> <<>>]
                          /\ g.moveNumber = 0
                          /\ g.roundEndTime = Absent
                          /\ g.moveDelay = [defined |-> TRUE, enabled |-> TRUE,
                                            baseDelay |-> 900, increment |-> 900]
      ]_vars

\* C36: in every session moveNumber is even exactly when White is to move
\* and odd exactly when Black is to move, also in a session rebuilt from a
\* row whose position has Black to move
C36_MoveNumberParityIsTurn ==
    \A g \in Sessions :
        (OrZero(g.moveNumber) % 2 = 0) <=> (Turn(g.game) = "w")

\* C37: a restore never replaces a session that is in the registry: when the
\* database read of join_game_<key> resolves while a session is stored
\* under the key, that session keeps its teams, position and history
C37_RestoreKeepsLiveSession ==
    [][\A p \in pending :
          (/\ p.kind = "restore"
           /\ MapHas(activeGames, JSStr(p.key))
           /\ Restore(p)) =>
              LET g == activeGames[JSStr(p.key)]
                  h == activeGames'[JSStr(p.key)]
              IN  /\ SameTeams(g, h)
                  /\ h.game = g.game
                  /\ h.moveHistory = g.moveHistory
      ]_vars

\* C38: the cooldown is a function of the session and the clock.  While no
\* move is applied to a session, canMakeMove once true stays true as the
\* clock advances; for an even moveNumber with a round completed it is true
\* exactly when the elapsed time has reached the required delay; and a step
\* in which only time passes changes no session, row, routing entry or
\* continuation
C38_CooldownIsDataAndClock ==
    /\ [] (\A g \in Sessions :
              (Paced(g) /\ ~OddMoveNumber(g) /\ g.roundEndTime # Absent) =>
                  (canMakeMove(g, clock) <=>
                       Elapsed(g) >= 1000 * ClaimedDelay(g.moveDelay.baseDelay,
                                                         g.moveDelay.increment,
                                                         g.moveNumber)))
    /\ [][/\ \A k \in Kept :
                (/\ activeGames'[k].game = activeGames[k].game
                 /\ canMakeMove(activeGames[k], clock)) =>
                    canMakeMove(activeGames'[k], clock')
          /\ clock' # clock =>
                /\ clock' > clock
                /\ UNCHANGED <<activeGames, userToChannel, db, pending>>
         ]_vars

\* the cooldown of a completed round has run out with the passing of time
\* alone: the session is as the second move of the round left it
C38_Witness ==
    \E g \in Sessions :
        /\ g.moveNumber = 2 /\ Len(g.moveHistory) = 2 /\ g.roundEndTime # Absent
        /\ Elapsed(g) >= 1000 * ClaimedDelay(900, 900, 2)
        /\ canMakeMove(g, clock) /\ ~canMakeMove(g, g.roundEndTime)

\* arr is the beginning of longer
StartsAs(arr, longer) ==
    Len(arr) <= Len(longer) /\ SubSeq(longer, 1, Len(arr)) = arr
\* the ledgers of h are those of g with the one move that entry records
OneMoveAppended(g, h) ==
    LET entry == Last(h.moveHistory) IN
    /\ h.moveHistory = Append(g.moveHistory, entry)
    /\ entry.number = Len(g.moveHistory) + 1
    /\ IF entry.captured = ""
       THEN h.capturedPieces = g.capturedPieces
       ELSE IF entry.side = "w"
            THEN /\ h.capturedPieces.black = Append(g.capturedPieces.black, entry.captured)
                 /\ h.capturedPieces.white = g.capturedPieces.white
            ELSE /\ h.capturedPieces.white = Append(g.capturedPieces.white, entry.captured)
                 /\ h.capturedPieces.black = g.capturedPieces.black

\* the move_ handler applies a move to the session stored under k
MoveApplied(k) ==
    /\ activeGames'[k].game = MoveGame(activeGames[k].game, "quiet")
          \/ activeGames'[k].game = MoveGame(activeGames[k].game, "mate")
          \/ activeGames'[k].game = MoveGame(activeGames[k].game, "draw")
    /\ \E u \in Users, n \in Notations : MoveButton(PrivateChat(u), u, n)

\* C39: moveHistory and both capturedPieces lists are append-only.  Each
\* applied move appends one history entry numbered with the previous length
\* plus one and appends the captured piece to the list of the side that lost
\* it exactly when the move captures; no step removes or rewrites an entry of
\* a session that stays in the registry
C39_LedgersAppendOnly ==
    [][\A k \in Kept :
          LET g == activeGames[k]
              h == activeGames'[k]
          IN  /\ StartsAs(g.moveHistory, h.moveHistory)
              /\ StartsAs(g.capturedPieces.white, h.capturedPieces.white)
              /\ StartsAs(g.capturedPieces.black, h.capturedPieces.black)
              /\ MoveApplied(k) => OneMoveAppended(g, h)
              /\ h.moveHistory # g.moveHistory => OneMoveAppended(g, h)
      ]_vars

\* the same for the steps of the move_ handler alone
C39_MoveAppendsOnce ==
    [][\A k \in Kept :
          MoveApplied(k) => OneMoveAppended(activeGames[k], activeGames'[k])
      ]_vars

\* C40: canMakeMove and getRemainingDelay agree for every session and clock
\* value: canMakeMove is true exactly when getRemainingDelay is 0, and
\* getRemainingDelay is never negative, for the values computed from the
\* session and for the value the last call returned
C40_AllowedIffNothingRemains ==
    /\ \A g \in Sessions :
          /\ getRemainingDelay(g, clock) >= 0
          /\ canMakeMove(g, clock) <=> getRemainingDelay(g, clock) = 0
    /\ lastResult.op = "getRemainingDelay" =>
          /\ lastResult.remaining >= 0
          /\ \A g \in Sessions : canMakeMove(g, clock) <=> lastResult.remaining = 0

\* getRemainingDelay was called less than a second before the end of a
\* cooldown: one second is reported and the move is not allowed
C40_Witness ==
    /\ lastResult.op = "getRemainingDelay" /\ lastResult.remaining = 1
    /\ \E g \in Sessions :
          /\ ~canMakeMove(g, clock)
          /\ 1000 * RequiredDelay(g) - Elapsed(g) = 1

=============================================================================
